---- MODULE Spec2Model ----
(***************************************************************************)
(* Admin dashboard of the restaurant platform: the customer list view      *)
(* (ViewCustomers) and the create-user form (CreateUser).  Each screen is  *)
(* a React component owning its state; every event handler runs to         *)
(* completion and the component is rendered again before the next event.   *)
(***************************************************************************)
EXTENDS FiniteSets, Integers, Sequences, TLC

VARIABLES customers, table, formData, posted, pending, alerts, event

vars == <<customers, table, formData, posted, pending, alerts, event>>

custVars == <<customers, table>>
formVars == <<formData, posted, pending, alerts>>

(* ------------------------------ bounds --------------------------------- *)

\* longest customer list drawn when the list is an arbitrary input
MaxLen == 3
\* number of submit events explored on the create-user form
MaxSubmits == 2

(* ------------------------- customer list view -------------------------- *)

John == [id |-> 1, name |-> "John Doe", DOB |-> "1990-05-15",
         phoneNumber |-> "1234567890", password |-> "pass123", role |-> "Customer"]

Jane == [id |-> 2, name |-> "Jane Smith", DOB |-> "1995-08-20",
         phoneNumber |-> "9876543210", password |-> "secure456", role |-> "Admin"]

InitialCustomers == <<John, Jane>>

\* ids a handler may be called with, and the records an arbitrary list holds
Ids == {1, 2, 3}
AnyRecords == {[r EXCEPT !.id = i, !.name = n] :
                  r \in {John, Jane}, i \in {1, 2}, n \in {"John Doe", "X"}}
AnyLists == UNION {[1..n -> AnyRecords] : n \in 0..MaxLen}

\* window.confirm: accepted or declined
ConfirmAnswers == BOOLEAN

\* window.prompt: cancelled (null), or the text typed (possibly empty)
Cancelled == [ok |-> FALSE, text |-> ""]
PromptAnswers == {Cancelled} \cup {[ok |-> TRUE, text |-> t] : t \in {"", " ", "X", "Y"}}

\* JavaScript truthiness of a prompt result: null and "" are falsy
Truthy(answer) == answer.ok /\ answer.text # ""

\* customers.filter(customer => customer.id !== id)
RECURSIVE Filter(_, _)
Filter(list, id) ==
    IF list = <<>> THEN <<>>
    ELSE IF Head(list).id # id THEN <<Head(list)>> \o Filter(Tail(list), id)
         ELSE Filter(Tail(list), id)

\* customers.map(customer => customer.id === id ? {...customer, name} : customer)
MapName(list, id, newName) ==
    [i \in 1..Len(list) |->
        IF list[i].id = id THEN [list[i] EXCEPT !.name = newName] ELSE list[i]]

\* the <tbody>: one data row per record, then the placeholder row when empty
DataRow(customer) == [kind |-> "data", key |-> customer.id, name |-> customer.name,
                      DOB |-> customer.DOB, phoneNumber |-> customer.phoneNumber,
                      password |-> customer.password, role |-> customer.role]
Placeholder == [kind |-> "placeholder", text |-> "No customers found"]

RenderMutNoPlaceholder(list) == [i \in 1..Len(list) |-> DataRow(list[i])]

Render(list) ==
    [i \in 1..Len(list) |-> DataRow(list[i])]
        \o (IF Len(list) = 0 THEN <<Placeholder>> ELSE <<>>)

handleDeleteMutFirstOnly(id, confirmed) ==
    /\ event' = [op |-> "delete", id |-> id, confirmed |-> confirmed, before |-> customers]
    /\ customers' = IF confirmed /\ Len(customers) > 0
                    THEN Tail(customers) ELSE customers
    /\ table' = Render(customers')
    /\ UNCHANGED formVars

handleDelete(id, confirmed) ==
    /\ event' = [op |-> "delete", id |-> id, confirmed |-> confirmed, before |-> customers]
    /\ customers' = IF confirmed THEN Filter(customers, id) ELSE customers
    /\ table' = Render(customers')
    /\ UNCHANGED formVars

handleEditMutRenumber(id, newName) ==
    /\ event' = [op |-> "edit", id |-> id, newName |-> newName, before |-> customers]
    /\ customers' = IF Truthy(newName)
                    THEN [i \in 1..Len(customers) |->
                            [customers[i] EXCEPT !.id = id, !.name = newName.text]]
                    ELSE customers
    /\ table' = Render(customers')
    /\ UNCHANGED formVars

handleEditMutEmpty(id, newName) ==
    /\ event' = [op |-> "edit", id |-> id, newName |-> newName, before |-> customers]
    /\ customers' = IF newName.ok
                    THEN MapName(customers, id, newName.text)
                    ELSE customers
    /\ table' = Render(customers')
    /\ UNCHANGED formVars

handleEdit(id, newName) ==
    /\ event' = [op |-> "edit", id |-> id, newName |-> newName, before |-> customers]
    /\ customers' = IF Truthy(newName)
                    THEN MapName(customers, id, newName.text)
                    ELSE customers
    /\ table' = Render(customers')
    /\ UNCHANGED formVars

\* the Edit and Delete buttons exist once per rendered data row
RowIds == {table[i].key : i \in {j \in 1..Len(table) : table[j].kind = "data"}}

ClickDelete == \E id \in RowIds, confirmed \in ConfirmAnswers : handleDelete(id, confirmed)
ClickEdit == \E id \in RowIds, newName \in PromptAnswers : handleEdit(id, newName)

(* --------------------------- create-user form -------------------------- *)

Fields == {"name", "DOB", "phoneNumber", "password", "role"}
RequiredFields == {"name", "phoneNumber", "password"}
FieldValues == {"", "a"}

EmptyForm == [name |-> "", DOB |-> "", phoneNumber |-> "", password |-> "", role |-> ""]

CreateUrl == "http://localhost:5000/api/auth/create"

SuccessText == "User created successfully!"
ErrorText == "Error creating user."
FallbackText == "Something went wrong."

\* what the server (or the network) answers to one POST
NoData == [hasData |-> FALSE, hasMessage |-> FALSE, message |-> ""]
NoMessage == [hasData |-> TRUE, hasMessage |-> FALSE, message |-> ""]
WithMessage(m) == [hasData |-> TRUE, hasMessage |-> TRUE, message |-> m]
Http(status, data) == [kind |-> "http", status |-> status, data |-> data]
NetworkFailure == [kind |-> "network", status |-> 0, data |-> NoData]

Outcomes ==
    {Http(s, NoMessage) : s \in {200, 201, 202, 204}}
        \cup {Http(400, d) : d \in {NoData, NoMessage, WithMessage(""),
                                    WithMessage("User already exists")}}
        \cup {Http(500, NoData), NetworkFailure}

\* axios default validateStatus: the promise resolves for 2xx and rejects otherwise
Resolves(outcome) ==
    outcome.kind = "http" /\ outcome.status >= 200 /\ outcome.status < 300

\* err.response?.data?.message, undefined when any link is missing
ErrMessage(outcome) ==
    IF outcome.kind = "http" /\ outcome.data.hasData /\ outcome.data.hasMessage
    THEN [defined |-> TRUE, text |-> outcome.data.message]
    ELSE [defined |-> FALSE, text |-> ""]

\* value || fallback
OrElse(value, fallback) ==
    IF value.defined /\ value.text # "" THEN value.text ELSE fallback

\* the submit event fires only when the required inputs pass validation
Valid(form) == \A f \in RequiredFields : form[f] # ""

handleChange(name, value) ==
    /\ event' = [op |-> "change", name |-> name, value |-> value]
    /\ formData' = [formData EXCEPT ![name] = value]
    /\ UNCHANGED <<posted, pending, alerts>>
    /\ UNCHANGED custVars

handleSubmitMutStaleBody ==
    /\ Valid(formData)
    /\ posted < MaxSubmits
    /\ event' = [op |-> "submit"]
    /\ posted' = posted + 1
    /\ pending' = pending @@ (posted + 1 :> [url |-> CreateUrl, body |-> EmptyForm])
    /\ UNCHANGED <<formData, alerts>>
    /\ UNCHANGED custVars

\* handleSubmit up to its await: the POST is issued with the rendered formData
handleSubmit ==
    /\ Valid(formData)
    /\ posted < MaxSubmits
    /\ event' = [op |-> "submit"]
    /\ posted' = posted + 1
    /\ pending' = pending @@ (posted + 1 :> [url |-> CreateUrl, body |-> formData])
    /\ UNCHANGED <<formData, alerts>>
    /\ UNCHANGED custVars

\* the alert shown once the request settles (then, else and catch branches)
AlertTextMutAny2xx(outcome) ==
    IF Resolves(outcome) THEN SuccessText
    ELSE OrElse(ErrMessage(outcome), FallbackText)

AlertTextMutNoFallback(outcome) ==
    IF Resolves(outcome)
    THEN IF outcome.status = 201 \/ outcome.status = 200 THEN SuccessText ELSE ErrorText
    ELSE ErrMessage(outcome).text

AlertText(outcome) ==
    IF Resolves(outcome)
    THEN IF outcome.status = 201 \/ outcome.status = 200 THEN SuccessText ELSE ErrorText
    ELSE OrElse(ErrMessage(outcome), FallbackText)

\* the form state once the request settles: setFormData runs for 200 and 201 only
FormAfterMutKeepsRole(outcome, form) ==
    IF Resolves(outcome) /\ (outcome.status = 201 \/ outcome.status = 200)
    THEN [EmptyForm EXCEPT !.role = form.role] ELSE form

FormAfterMutAlwaysReset(outcome, form) == EmptyForm

FormAfter(outcome, form) ==
    IF Resolves(outcome) /\ (outcome.status = 201 \/ outcome.status = 200)
    THEN EmptyForm ELSE form

\* handleSubmit after its await, for the request numbered req
handleResponse(req, outcome) ==
    /\ req \in DOMAIN pending
    /\ event' = [op |-> "response", req |-> req, outcome |-> outcome,
                 before |-> formData]
    /\ pending' = [r \in DOMAIN pending \ {req} |-> pending[r]]
    /\ alerts' = Append(alerts, AlertText(outcome))
    /\ formData' = FormAfter(outcome, formData)
    /\ UNCHANGED posted
    /\ UNCHANGED custVars

Change == \E name \in Fields, value \in FieldValues : handleChange(name, value)
Submit == handleSubmit
Response == \E req \in DOMAIN pending, outcome \in Outcomes : handleResponse(req, outcome)

InitCommon ==
    /\ formData = EmptyForm
    /\ posted = 0
    /\ pending = <<>>
    /\ alerts = <<>>
    /\ event = [op |-> "mount"]

InitCustomers ==
    /\ customers = InitialCustomers
    /\ table = Render(customers)

Init == InitCommon /\ InitCustomers

\* the list handed to the handlers is an arbitrary input
InitAnyList ==
    /\ InitCommon
    /\ customers \in AnyLists
    /\ table = Render(customers)

\* the customer list screen
Next == ClickDelete \/ ClickEdit

NextAnyList ==
    \/ \E id \in Ids, confirmed \in ConfirmAnswers : handleDelete(id, confirmed)
    \/ \E id \in Ids, newName \in PromptAnswers : handleEdit(id, newName)

\* the create-user screen
NextForm == Change \/ Submit \/ Response

Spec == Init /\ [][Next]_vars
SpecAnyList == InitAnyList /\ [][NextAnyList]_vars
SpecForm == Init /\ [][NextForm]_vars

(* ------------------------------ properties ----------------------------- *)

\* positions of the records a delete of id keeps, and the n-th of them
Kept(list, id) == {i \in 1..Len(list) : list[i].id # id}
NthKept(list, id, n) ==
    CHOOSE k \in Kept(list, id) : Cardinality({j \in Kept(list, id) : j <= k}) = n

\* C1: handleDelete(id) with the confirmation accepted leaves exactly the
\* records whose id differs from id, unchanged and in their order; with the
\* confirmation declined it leaves the list as it was.
C1_DeleteRemovesExactlyId ==
    [][event'.op = "delete" =>
        IF event'.confirmed
        THEN /\ Len(customers') = Cardinality(Kept(customers, event'.id))
             /\ \A n \in 1..Len(customers') :
                    customers'[n] = customers[NthKept(customers, event'.id, n)]
        ELSE customers' = customers]_vars

C1_Witness ==
    /\ event.op = "delete"
    /\ event.confirmed
    /\ Len(event.before) = MaxLen
    /\ Len(customers) = 1
    /\ event.before[2] = customers[1]

\* C2: handleEdit(id) with a non-empty name changes the name of the records
\* with that id and nothing else (other fields, other records, length and
\* order stay); with an empty or cancelled prompt the list is unchanged.
C2_EditChangesOnlyName ==
    [][event'.op = "edit" =>
        IF event'.newName.ok /\ event'.newName.text # ""
        THEN /\ Len(customers') = Len(customers)
             /\ \A i \in 1..Len(customers) :
                  /\ DOMAIN customers'[i] = DOMAIN customers[i]
                  /\ \A f \in DOMAIN customers[i] \ {"name"} :
                        customers'[i][f] = customers[i][f]
                  /\ customers'[i].name =
                        IF customers[i].id = event'.id
                        THEN event'.newName.text ELSE customers[i].name
        ELSE customers' = customers]_vars

C2_Witness ==
    /\ event.op = "edit"
    /\ event.newName = [ok |-> TRUE, text |-> "Y"]
    /\ Len(customers) = 2
    /\ customers[1].id # event.id
    /\ customers[2].id = event.id
    /\ customers[2].name = "Y"
    /\ customers[1] = event.before[1]

Failed(outcome) ==
    outcome.kind = "network" \/ outcome.status < 200 \/ outcome.status > 299

\* C3: handling a response of status 200 or 201 leaves all five fields empty,
\* whatever was submitted and whatever was typed while the request was pending.
C3_SuccessClearsForm ==
    [][(event'.op = "response" /\ event'.outcome.kind = "http"
            /\ event'.outcome.status \in {200, 201})
        => \A f \in Fields : formData'[f] = ""]_vars

\* the field values differed from the submitted ones when the response came
C3_Witness ==
    /\ event.op = "response"
    /\ event.outcome.status \in {200, 201}
    /\ event.before.name = ""
    /\ event.before.role = "a"
    /\ formData = EmptyForm

\* C4: handling a failed request (non-2xx response or network failure)
\* changes none of the five fields.
C4_FailureKeepsForm ==
    [][(event'.op = "response" /\ Failed(event'.outcome))
        => \A f \in Fields : formData'[f] = formData[f]]_vars

C4_Witness ==
    /\ event.op = "response"
    /\ Failed(event.outcome)
    /\ formData = event.before
    /\ \A f \in Fields : formData[f] = "a"

\* C5: a submit event issues exactly one POST to the create endpoint whose
\* body is the form's field values at that moment; no other event (a failure
\* being handled included) issues a request.
C5_SubmitPostsOnce ==
    /\ [][event'.op = "submit" =>
            /\ posted' = posted + 1
            /\ DOMAIN pending' = DOMAIN pending \cup {posted'}
            /\ posted' \notin DOMAIN pending
            /\ pending'[posted'].url = CreateUrl
            /\ \A f \in Fields : pending'[posted'].body[f] = formData[f]
            /\ \A r \in DOMAIN pending : pending'[r] = pending[r]]_vars
    /\ [][event'.op # "submit" =>
            /\ posted' = posted
            /\ DOMAIN pending' \subseteq DOMAIN pending]_vars

\* a submit after a failure was reported: the second POST comes from the user
C5_Witness ==
    /\ event.op = "submit"
    /\ posted = 2
    /\ DOMAIN pending = {2}
    /\ alerts = <<FallbackText>>
    /\ pending[2].body = formData
    /\ formData.DOB = "a"

\* C6: in every reachable state at most one request is in flight.
C6_AtMostOneInFlight == Cardinality(DOMAIN pending) <= 1

\* C7: a failed request shows exactly one alert: the server's message when
\* the error carries a non-empty one, 'Something went wrong.' otherwise, and
\* never the success alert.
C7_FailureAlert ==
    [][(event'.op = "response" /\ Failed(event'.outcome)) =>
        LET o == event'.outcome
            carried == o.kind = "http" /\ o.data.hasData /\ o.data.hasMessage
                          /\ o.data.message # ""
            text == IF carried THEN o.data.message ELSE "Something went wrong."
        IN  /\ alerts' = Append(alerts, text)
            /\ text # "User created successfully!"]_vars

C7_Witness ==
    /\ event.op = "response"
    /\ event.outcome = Http(400, WithMessage(""))
    /\ alerts = <<"User already exists", "Something went wrong.">>

\* C8: the table shows the single placeholder row iff the list is empty, and
\* then no data row; otherwise one data row per record, in order, and no
\* placeholder.
C8_PlaceholderIffEmpty ==
    LET ph == {i \in 1..Len(table) : table[i].kind = "placeholder"}
        data == {i \in 1..Len(table) : table[i].kind = "data"}
    IN  /\ Cardinality(ph) <= 1
        /\ (ph # {}) <=> (Len(customers) = 0)
        /\ Len(customers) = 0 => data = {}
        /\ Cardinality(data) = Len(customers)
        /\ Cardinality(ph) + Cardinality(data) = Len(table)
        /\ \A i \in 1..Len(customers) :
              /\ table[i].kind = "data"
              /\ table[i].key = customers[i].id
              /\ table[i].name = customers[i].name

C8_Witness ==
    /\ event.op = "delete"
    /\ event.confirmed
    /\ Len(event.before) = 1
    /\ customers = <<>>
    /\ table = <<[kind |-> "placeholder", text |-> "No customers found"]>>

\* C9: from the initial two-record list no two records ever share an id, the
\* ids stay among the initial ones, and the list never grows.
C9_IdsStayUnique ==
    /\ [](/\ \A i, j \in 1..Len(customers) :
                customers[i].id = customers[j].id => i = j
          /\ {customers[i].id : i \in 1..Len(customers)} \subseteq {1, 2})
    /\ [][Len(customers') <= Len(customers)]_vars

C9_Witness ==
    /\ event.op = "edit"
    /\ event.newName = [ok |-> TRUE, text |-> "X"]
    /\ event.id = 1
    /\ Len(customers) = 2
    /\ customers[1].name = "X"
    /\ customers[2].name = "Y"

\* C10: a response that resolves with a status other than 200 or 201 shows
\* 'Error creating user.' and resets no field; the success alert and the
\* reset happen for status 200 or 201 only.
C10_Other2xxIsError ==
    /\ [][(event'.op = "response" /\ event'.outcome.kind = "http"
             /\ event'.outcome.status \in 200..299
             /\ event'.outcome.status \notin {200, 201})
          => /\ alerts' = Append(alerts, "Error creating user.")
             /\ formData' = formData]_vars
    /\ [][(/\ event'.op = "response"
           /\ \/ alerts' = Append(alerts, "User created successfully!")
              \/ formData' # formData)
          => event'.outcome.status \in {200, 201}]_vars

C10_Witness ==
    /\ event.op = "response"
    /\ event.outcome.status = 204
    /\ alerts = <<"Error creating user.">>
    /\ formData = event.before
    /\ formData # EmptyForm
====
